---------------------------- MODULE Spec2Model ----------------------------
(***************************************************************************)
(* The single-sided order book of src/OrderBook.cpp: a treap with order    *)
(* statistics (key = (price, insertion_id), heap on a random priority,     *)
(* subtree_size for rank queries) owned by the class OrderBook, whose      *)
(* three methods add, removeByPosition and buy are the operations          *)
(* addOrder, cancelAtRank and executeMarket of the design.                 *)
(*                                                                         *)
(* The C++ heap is modelled as a sequence of node records addressed by     *)
(* index: `new` appends a node (addresses are never handed out twice),     *)
(* `delete` overwrites the node by the record Deleted.  Every function     *)
(* that writes through a pointer takes the heap h and returns the new heap *)
(* together with the pointer the C++ function returns.                     *)
(***************************************************************************)
EXTENDS Integers, Sequences, FiniteSets, TLC

\* ------------------------------------------------------------------ bounds

\* Number of add calls explored in one run of the book.
MaxAdds == 3

\* Inputs of add: (price, size) pairs.  The design requires size > 0; the last
\* pair is what a caller may pass all the same.
AddInputs == {<<10, 5>>, <<10, 3>>, <<7, 4>>, <<7, 0>>}

\* The add inputs used where only the keys matter: two prices.
TreapAddInputs == {<<10, 5>>, <<7, 4>>}

\* The add inputs that keep to the design's contract (size > 0).
ValidAddInputs == {in \in AddInputs : in[2] > 0}

\* Outcomes of (rand() << 15) ^ rand() explored for a new node.
Priorities == {1, 2}

\* Inputs of removeByPosition: below, inside and above every rank range.
Positions == -1 .. MaxAdds

\* Inputs of buy: nothing, part of one order, several orders, more than rests.
BuyShares == {0, 6, 10}

\* Inputs of buy explored on books of valid orders: also single units.
FillShares == BuyShares \cup {1}

\* Width of int in the model.  The code's int has 32 bits and its long long
\* 64; the model keeps long long twice as wide as int and scales both down, so
\* that every long long value is an integer TLC can compute with.
IntBits == 8

LongLongBits == 2 * IntBits

\* INT_MAX and LLONG_MAX at these widths.
IntMax == 2 ^ (IntBits - 1) - 1

LongLongMax == 2 ^ (LongLongBits - 1) - 1

\* Inputs of add that reach the ends of the types: the largest price with a
\* size beyond int, the largest price with one unit, a small price with a size
\* of twice INT_MAX.
WideAddInputs ==
    {<<IntMax, IntMax + 2>>, <<IntMax, 1>>, <<3, 2 * IntMax>>}

\* Inputs of buy on such books: more than an int holds, and the largest long
\* long.
WideBuyShares == {IntMax + 3, LongLongMax}

\* Inputs of add for the loop of buy taken one iteration at a time: a size
\* above 0, the size 0 and a size below 0.
LoopAddInputs == {<<7, 4>>, <<7, 0>>, <<10, -2>>}

\* Inputs of buy for it: below 0, 0, part of an order, more than rests, and
\* the largest long long, which a fill of a size below 0 takes out of long
\* long.
LoopBuyShares == {-1, 0, 3, 6, LongLongMax}

\* Number of lines of the input streams of main explored.
MaxLines == 3

\* The lines an input stream is made of, as characters: three well-formed
\* commands (all of "+ 10 5", "- 0", "= 6" and "+ 7 4"), an unknown command
\* character, a '-' whose argument is not a number and a '+' whose second
\* argument is missing.
Lines ==
    { <<"+", " ", "7", " ", "4">>,
      <<"+", " ", "1", "0", " ", "5">>,
      <<"-", " ", "0">>,
      <<"=", " ", "6">>,
      <<"x">>,
      <<"-", " ", "x">>,
      <<"+", " ", "7">> }

\* Values an int or long long that is read before anything was stored in it
\* may be found to hold.
Indeterminate == {-1, 0, 1}

\* static const int NUM_ENTRIES
NUM_ENTRIES == 1000000

\* ------------------------------------------------------------------- state

VARIABLES
    heap,                   \* the allocated TreapNodes, by address
    root,                   \* OrderBook::root
    globalInsertionCounter, \* OrderBook::globalInsertionCounter
    lastOp,                 \* history: the last call, its arguments and result
    nAdded,                 \* history: number of add calls made
    nRemoved,               \* history: number of orders removed so far
    usedSequences,          \* history: every insertion_id handed out so far
    phase,                  \* history: "adds" | "executed" | "mixed"
    cin,                    \* std::cin: characters, read position, good()
    loop_i,                 \* main: the loop counter i
    cout,                   \* std::cout: the values printed so far
    pc,                     \* main: "loop" | "final" | "done"
    calls,                  \* history: the calls main made on orderbook
    buyFrame                \* OrderBook::buy in progress: shares, cost; history

\* What main adds to the state of its OrderBook.
io == <<cin, loop_i, cout, pc, calls>>

vars == <<heap, root, globalInsertionCounter, lastOp, nAdded, nRemoved,
          usedSequences, phase, cin, loop_i, cout, pc, calls, buyFrame>>

\* ------------------------------------------------------------ treap nodes

\* nullptr
Null == 0

\* TreapNode::TreapNode; prio is the value the constructor draws from rand().
TreapNode(p, s, ins_id, prio) ==
    [price |-> p, sizeShares |-> s, insertion_id |-> ins_id,
     priority |-> prio, subtree_size |-> 1, left |-> Null, right |-> Null,
     freed |-> FALSE]

\* What `delete` leaves at the address of a node.
Deleted ==
    [price |-> 0, sizeShares |-> 0, insertion_id |-> -1,
     priority |-> 0, subtree_size |-> 0, left |-> Null, right |-> Null,
     freed |-> TRUE]

getSize(h, n) == IF n # Null THEN h[n].subtree_size ELSE 0

\* Mutant of updateSize: the node itself is not counted.
updateSize_NoSelf(h, n) ==
    IF n = Null THEN h
    ELSE [h EXCEPT ![n].subtree_size =
                       getSize(h, h[n].left) + getSize(h, h[n].right)]

updateSize(h, n) ==
    IF n = Null THEN h
    ELSE [h EXCEPT ![n].subtree_size =
                       1 + getSize(h, h[n].left) + getSize(h, h[n].right)]

\* Mutant of rotateRight: the sizes of x and y are left as they were.
rotateRight_NoUpdate(h, y) ==
    LET x  == h[y].left
        T2 == h[x].right
        h1 == [h EXCEPT ![x].right = y, ![y].left = T2]
    IN  [h |-> h1, r |-> x]

rotateRight(h, y) ==
    LET x  == h[y].left
        T2 == h[x].right
        h1 == [h EXCEPT ![x].right = y, ![y].left = T2]
    IN  [h |-> updateSize(updateSize(h1, y), x), r |-> x]

rotateLeft(h, x) ==
    LET y  == h[x].right
        T2 == h[y].left
        h1 == [h EXCEPT ![y].left = x, ![x].right = T2]
    IN  [h |-> updateSize(updateSize(h1, x), y), r |-> y]

\* Mutant of lessThan: equal prices are ordered by descending insertion_id.
lessThan_TieReversed(p1, i1, p2, i2) == IF p1 # p2 THEN p1 < p2 ELSE i1 > i2

\* Mutant of lessThan: only the prices are compared, with <=.
lessThan_PriceOrEqual(p1, i1, p2, i2) == p1 <= p2

lessThan(p1, i1, p2, i2) == IF p1 # p2 THEN p1 < p2 ELSE i1 < i2

RECURSIVE treapInsert(_, _, _, _, _, _)
treapInsert(h, n, price, sz, ins_id, prio) ==
    IF n = Null
    THEN [h |-> Append(h, TreapNode(price, sz, ins_id, prio)), r |-> Len(h) + 1]
    ELSE IF lessThan(price, ins_id, h[n].price, h[n].insertion_id)
    THEN LET sub == treapInsert(h, h[n].left, price, sz, ins_id, prio)
             h1  == [sub.h EXCEPT ![n].left = sub.r]
             rot == IF h1[h1[n].left].priority > h1[n].priority
                    THEN rotateRight(h1, n)
                    ELSE [h |-> h1, r |-> n]
         IN  [h |-> updateSize(rot.h, rot.r), r |-> rot.r]
    ELSE LET sub == treapInsert(h, h[n].right, price, sz, ins_id, prio)
             h1  == [sub.h EXCEPT ![n].right = sub.r]
             rot == IF h1[h1[n].right].priority > h1[n].priority
                    THEN rotateLeft(h1, n)
                    ELSE [h |-> h1, r |-> n]
         IN  [h |-> updateSize(rot.h, rot.r), r |-> rot.r]

\* Mutant of treapMerge: the else branch hangs the merged tree on the wrong
\* child, R->right = treapMerge(L, R->right).
RECURSIVE treapMerge_WrongChild(_, _, _)
treapMerge_WrongChild(h, L, R) ==
    IF L = Null \/ R = Null THEN [h |-> h, r |-> IF L # Null THEN L ELSE R]
    ELSE IF h[L].priority > h[R].priority
    THEN LET sub == treapMerge_WrongChild(h, h[L].right, R)
             h1  == [sub.h EXCEPT ![L].right = sub.r]
         IN  [h |-> updateSize(h1, L), r |-> L]
    ELSE LET sub == treapMerge_WrongChild(h, L, h[R].right)
             h1  == [sub.h EXCEPT ![R].right = sub.r]
         IN  [h |-> updateSize(h1, R), r |-> R]

\* Mutant of treapMerge: the root of the lower priority goes on top.
RECURSIVE treapMerge_LowerOnTop(_, _, _)
treapMerge_LowerOnTop(h, L, R) ==
    IF L = Null \/ R = Null THEN [h |-> h, r |-> IF L # Null THEN L ELSE R]
    ELSE IF h[L].priority < h[R].priority
    THEN LET sub == treapMerge_LowerOnTop(h, h[L].right, R)
             h1  == [sub.h EXCEPT ![L].right = sub.r]
         IN  [h |-> updateSize(h1, L), r |-> L]
    ELSE LET sub == treapMerge_LowerOnTop(h, L, h[R].left)
             h1  == [sub.h EXCEPT ![R].left = sub.r]
         IN  [h |-> updateSize(h1, R), r |-> R]

\* Mutant of treapMerge: on equal priorities the root of L goes on top.
RECURSIVE treapMerge_TieToLeft(_, _, _)
treapMerge_TieToLeft(h, L, R) ==
    IF L = Null \/ R = Null THEN [h |-> h, r |-> IF L # Null THEN L ELSE R]
    ELSE IF h[L].priority >= h[R].priority
    THEN LET sub == treapMerge_TieToLeft(h, h[L].right, R)
             h1  == [sub.h EXCEPT ![L].right = sub.r]
         IN  [h |-> updateSize(h1, L), r |-> L]
    ELSE LET sub == treapMerge_TieToLeft(h, L, h[R].left)
             h1  == [sub.h EXCEPT ![R].left = sub.r]
         IN  [h |-> updateSize(h1, R), r |-> R]

RECURSIVE treapMerge(_, _, _)
treapMerge(h, L, R) ==
    IF L = Null \/ R = Null THEN [h |-> h, r |-> IF L # Null THEN L ELSE R]
    ELSE IF h[L].priority > h[R].priority
    THEN LET sub == treapMerge(h, h[L].right, R)
             h1  == [sub.h EXCEPT ![L].right = sub.r]
         IN  [h |-> updateSize(h1, L), r |-> L]
    ELSE LET sub == treapMerge(h, L, h[R].left)
             h1  == [sub.h EXCEPT ![R].left = sub.r]
         IN  [h |-> updateSize(h1, R), r |-> R]

\* Mutant of getByRank: the descent to the right passes rank - leftSize.
RECURSIVE getByRank_RightOffByOne(_, _, _)
getByRank_RightOffByOne(h, n, rank) ==
    IF n = Null THEN Null
    ELSE LET leftSize == getSize(h, h[n].left) IN
         IF rank < leftSize THEN getByRank_RightOffByOne(h, h[n].left, rank)
         ELSE IF rank = leftSize THEN n
         ELSE getByRank_RightOffByOne(h, h[n].right, rank - leftSize)

RECURSIVE getByRank(_, _, _)
getByRank(h, n, rank) ==
    IF n = Null THEN Null
    ELSE LET leftSize == getSize(h, h[n].left) IN
         IF rank < leftSize THEN getByRank(h, h[n].left, rank)
         ELSE IF rank = leftSize THEN n
         ELSE getByRank(h, h[n].right, rank - leftSize - 1)

\* Mutant of removeByRank: the node is unlinked but not deleted.
RECURSIVE removeByRank_NoDelete(_, _, _)
removeByRank_NoDelete(h, n, rank) ==
    IF n = Null THEN [h |-> h, r |-> Null]
    ELSE LET leftSize == getSize(h, h[n].left) IN
         IF rank < leftSize
         THEN LET sub == removeByRank_NoDelete(h, h[n].left, rank)
                  h1  == [sub.h EXCEPT ![n].left = sub.r]
              IN  [h |-> updateSize(h1, n), r |-> n]
         ELSE IF rank = leftSize
         THEN treapMerge(h, h[n].left, h[n].right)
         ELSE LET sub == removeByRank_NoDelete(h, h[n].right,
                                               rank - leftSize - 1)
                  h1  == [sub.h EXCEPT ![n].right = sub.r]
              IN  [h |-> updateSize(h1, n), r |-> n]

RECURSIVE removeByRank(_, _, _)
removeByRank(h, n, rank) ==
    IF n = Null THEN [h |-> h, r |-> Null]
    ELSE LET leftSize == getSize(h, h[n].left) IN
         IF rank < leftSize
         THEN LET sub == removeByRank(h, h[n].left, rank)
                  h1  == [sub.h EXCEPT ![n].left = sub.r]
              IN  [h |-> updateSize(h1, n), r |-> n]
         ELSE IF rank = leftSize
         THEN LET tmp == treapMerge(h, h[n].left, h[n].right)
              IN  [h |-> [tmp.h EXCEPT ![n] = Deleted], r |-> tmp.r]
         ELSE LET sub == removeByRank(h, h[n].right, rank - leftSize - 1)
                  h1  == [sub.h EXCEPT ![n].right = sub.r]
              IN  [h |-> updateSize(h1, n), r |-> n]

\* Mutant of treapSplit: a node equal to the key goes to the second tree.
RECURSIVE treapSplit_EqualToSecond(_, _, _, _)
treapSplit_EqualToSecond(h, n, price, ins) ==
    IF n = Null THEN [h |-> h, first |-> Null, second |-> Null]
    ELSE IF lessThan(h[n].price, h[n].insertion_id, price, ins)
    THEN LET splitted == treapSplit_EqualToSecond(h, h[n].right, price, ins)
             h1       == [splitted.h EXCEPT ![n].right = splitted.first]
         IN  [h |-> updateSize(h1, n), first |-> n,
              second |-> splitted.second]
    ELSE LET splitted == treapSplit_EqualToSecond(h, h[n].left, price, ins)
             h1       == [splitted.h EXCEPT ![n].left = splitted.second]
         IN  [h |-> updateSize(h1, n), first |-> splitted.first,
              second |-> n]

RECURSIVE treapSplit(_, _, _, _)
treapSplit(h, n, price, ins) ==
    IF n = Null THEN [h |-> h, first |-> Null, second |-> Null]
    ELSE IF \/ lessThan(h[n].price, h[n].insertion_id, price, ins)
            \/ (h[n].price = price /\ h[n].insertion_id = ins)
    THEN LET splitted == treapSplit(h, h[n].right, price, ins)
             h1       == [splitted.h EXCEPT ![n].right = splitted.first]
         IN  [h |-> updateSize(h1, n), first |-> n,
              second |-> splitted.second]
    ELSE LET splitted == treapSplit(h, h[n].left, price, ins)
             h1       == [splitted.h EXCEPT ![n].left = splitted.second]
         IN  [h |-> updateSize(h1, n), first |-> splitted.first,
              second |-> n]

\* Mutant of treapRemoveKey: a node is taken for the one sought when its price
\* is the price sought.
RECURSIVE treapRemoveKey_PriceOnly(_, _, _, _)
treapRemoveKey_PriceOnly(h, n, price, ins) ==
    IF n = Null THEN [h |-> h, r |-> Null]
    ELSE IF h[n].price = price
    THEN LET tmp == treapMerge(h, h[n].left, h[n].right)
         IN  [h |-> [tmp.h EXCEPT ![n] = Deleted], r |-> tmp.r]
    ELSE IF lessThan(price, ins, h[n].price, h[n].insertion_id)
    THEN LET sub == treapRemoveKey_PriceOnly(h, h[n].left, price, ins)
             h1  == [sub.h EXCEPT ![n].left = sub.r]
         IN  [h |-> updateSize(h1, n), r |-> n]
    ELSE LET sub == treapRemoveKey_PriceOnly(h, h[n].right, price, ins)
             h1  == [sub.h EXCEPT ![n].right = sub.r]
         IN  [h |-> updateSize(h1, n), r |-> n]

RECURSIVE treapRemoveKey(_, _, _, _)
treapRemoveKey(h, n, price, ins) ==
    IF n = Null THEN [h |-> h, r |-> Null]
    ELSE IF h[n].price = price /\ h[n].insertion_id = ins
    THEN LET tmp == treapMerge(h, h[n].left, h[n].right)
         IN  [h |-> [tmp.h EXCEPT ![n] = Deleted], r |-> tmp.r]
    ELSE IF lessThan(price, ins, h[n].price, h[n].insertion_id)
    THEN LET sub == treapRemoveKey(h, h[n].left, price, ins)
             h1  == [sub.h EXCEPT ![n].left = sub.r]
         IN  [h |-> updateSize(h1, n), r |-> n]
    ELSE LET sub == treapRemoveKey(h, h[n].right, price, ins)
             h1  == [sub.h EXCEPT ![n].right = sub.r]
         IN  [h |-> updateSize(h1, n), r |-> n]

\* Keys (price, insertion_id) handed to treapSplit and treapRemoveKey: those
\* of the orders an add can have made, and prices off every order.
Keys == {7, 8, 10} \X (0 .. MaxAdds - 1)

\* ---------------------------------------------------------- observations

\* The nodes reachable from n, left to right, by the child pointers alone.
RECURSIVE InOrder(_, _)
InOrder(h, n) ==
    IF n = Null THEN <<>>
    ELSE InOrder(h, h[n].left) \o <<n>> \o InOrder(h, h[n].right)

\* What a caller sees of a resting order.
NoOrder == [price |-> 0, quantity |-> 0, sequence |-> -1]

Payload(h, n) ==
    IF n = Null THEN NoOrder
    ELSE [price |-> h[n].price, quantity |-> h[n].sizeShares,
          sequence |-> h[n].insertion_id]

\* The resting orders as the book's client enumerates them:
\* getByRank(0), ..., getByRank(size - 1).
RankList(h, n) ==
    [k \in 1 .. getSize(h, n) |-> Payload(h, getByRank(h, n, k - 1))]

\* The value of type int that has the bits of v: what a conversion to int, or
\* arithmetic done in int, leaves of v (two's complement).
IntOf(v) == ((v + 2 ^ (IntBits - 1)) % 2 ^ IntBits) - 2 ^ (IntBits - 1)

\* The same for long long.
LongLongOf(v) ==
    ((v + 2 ^ (LongLongBits - 1)) % 2 ^ LongLongBits) - 2 ^ (LongLongBits - 1)

\* Mutant of fillCost: canFill is narrowed to int and the product is an int.
fillCost_IntProduct(canFill, price) == IntOf(IntOf(canFill) * price)

\* canFill * top->price: a long long times an int, computed in long long.
fillCost(canFill, price) == LongLongOf(canFill * price)

\* Mutant of Min: std::max where std::min is meant.
Min_Max(a, b) == IF a < b THEN b ELSE a

\* std::min
Min(a, b) == IF a < b THEN a ELSE b

\* ---------------------------------------------------------------- OrderBook

\* Mutant of add: the counter is passed on but not incremented.
add_NoIncrement(h, rt, counter, price, size, prio) ==
    LET t == treapInsert(h, rt, price, size, counter, prio)
    IN  [h |-> t.h, r |-> t.r, c |-> counter]

\* OrderBook::add
add(h, rt, counter, price, size, prio) ==
    LET t == treapInsert(h, rt, price, size, counter, prio)
    IN  [h |-> t.h, r |-> t.r, c |-> counter + 1]

\* Mutant of removeByPosition: the position is taken as 1-based.
removeByPosition_OneBased(h, rt, pos) == removeByRank(h, rt, pos - 1)

\* Mutant of removeByPosition: a position below 0 is clamped to the best order
\* and one above the last rank to the last order.
removeByPosition_Clamped(h, rt, pos) ==
    removeByRank(h, rt, IF pos < 0 THEN 0
                        ELSE IF pos >= getSize(h, rt) THEN getSize(h, rt) - 1
                        ELSE pos)

\* OrderBook::removeByPosition
removeByPosition(h, rt, pos) == removeByRank(h, rt, pos)

\* Mutant of buyLoop: shares is not reduced by what was filled.
RECURSIVE buyLoop_SharesKept(_, _, _, _, _)
buyLoop_SharesKept(h, rt, shares, cost, log) ==
    IF ~(shares > 0 /\ rt # Null)
    THEN [h |-> h, r |-> rt, cost |-> cost, shares |-> shares, log |-> log]
    ELSE LET top == getByRank(h, rt, 0) IN
         IF top = Null
         THEN [h |-> h, r |-> rt, cost |-> cost, shares |-> shares, log |-> log]
         ELSE LET canFill == Min(shares, h[top].sizeShares)
                  h1      == [h EXCEPT ![top].sizeShares = @ - canFill]
                  gone    == h1[top].sizeShares = 0
                  rem     == IF gone THEN removeByRank(h1, rt, 0)
                             ELSE [h |-> h1, r |-> rt]
                  entry   == [node |-> top, heap |-> h, root |-> rt,
                              canFill |-> canFill, removed |-> gone]
              IN  buyLoop_SharesKept(rem.h, rem.r, shares,
                          LongLongOf(cost + fillCost(canFill, h[top].price)),
                          Append(log, entry))

\* Mutant of buyLoop: an order emptied by the last fill of the call is left in
\* the tree (it is removed only when shares remain to be filled).
RECURSIVE buyLoop_LazyRemoval(_, _, _, _, _)
buyLoop_LazyRemoval(h, rt, shares, cost, log) ==
    IF ~(shares > 0 /\ rt # Null)
    THEN [h |-> h, r |-> rt, cost |-> cost, shares |-> shares, log |-> log]
    ELSE LET top == getByRank(h, rt, 0) IN
         IF top = Null
         THEN [h |-> h, r |-> rt, cost |-> cost, shares |-> shares, log |-> log]
         ELSE LET canFill == Min(shares, h[top].sizeShares)
                  h1      == [h EXCEPT ![top].sizeShares = @ - canFill]
                  gone    == h1[top].sizeShares = 0 /\ shares - canFill > 0
                  rem     == IF gone THEN removeByRank(h1, rt, 0)
                             ELSE [h |-> h1, r |-> rt]
                  entry   == [node |-> top, heap |-> h, root |-> rt,
                              canFill |-> canFill, removed |-> gone]
              IN  buyLoop_LazyRemoval(rem.h, rem.r, shares - canFill,
                          LongLongOf(cost + fillCost(canFill, h[top].price)),
                          Append(log, entry))

\* The while loop of OrderBook::buy.  log is history: one entry per iteration,
\* with the node read at rank 0, the tree at that moment (heap and root), the
\* units taken and whether the node was removed.
\* Mutant of buyLoop: an order filled in part is taken out of the tree and put
\* back as a new node that holds what is left of it.
RECURSIVE buyLoop_Reinserts(_, _, _, _, _)
buyLoop_Reinserts(h, rt, shares, cost, log) ==
    IF ~(shares > 0 /\ rt # Null)
    THEN [h |-> h, r |-> rt, cost |-> cost, shares |-> shares, log |-> log]
    ELSE LET top == getByRank(h, rt, 0) IN
         IF top = Null
         THEN [h |-> h, r |-> rt, cost |-> cost, shares |-> shares, log |-> log]
         ELSE LET canFill == Min(shares, h[top].sizeShares)
                  h1      == [h EXCEPT ![top].sizeShares = @ - canFill]
                  gone    == h1[top].sizeShares = 0
                  out     == removeByRank(h1, rt, 0)
                  rem     == IF gone THEN out
                             ELSE treapInsert(out.h, out.r, h1[top].price,
                                              h1[top].sizeShares,
                                              h1[top].insertion_id,
                                              h1[top].priority)
                  entry   == [node |-> top, heap |-> h, root |-> rt,
                              canFill |-> canFill, removed |-> gone]
              IN  buyLoop_Reinserts(rem.h, rem.r, shares - canFill,
                          LongLongOf(cost + fillCost(canFill, h[top].price)),
                          Append(log, entry))

RECURSIVE buyLoop(_, _, _, _, _)
buyLoop(h, rt, shares, cost, log) ==
    IF ~(shares > 0 /\ rt # Null)
    THEN [h |-> h, r |-> rt, cost |-> cost, shares |-> shares, log |-> log]
    ELSE LET top == getByRank(h, rt, 0) IN
         IF top = Null
         THEN [h |-> h, r |-> rt, cost |-> cost, shares |-> shares, log |-> log]
         ELSE LET canFill == Min(shares, h[top].sizeShares)
                  h1      == [h EXCEPT ![top].sizeShares = @ - canFill]
                  gone    == h1[top].sizeShares = 0
                  rem     == IF gone THEN removeByRank(h1, rt, 0)
                             ELSE [h |-> h1, r |-> rt]
                  entry   == [node |-> top, heap |-> h, root |-> rt,
                              canFill |-> canFill, removed |-> gone]
              IN  buyLoop(rem.h, rem.r, shares - canFill,
                          LongLongOf(cost + fillCost(canFill, h[top].price)),
                          Append(log, entry))

\* Mutant of buy: the book is dropped whole once the loop has ended.
buy_ClearsBook(h, rt, shares) ==
    [buyLoop(h, rt, shares, 0, <<>>) EXCEPT !.r = Null]

\* OrderBook::buy
buy(h, rt, shares) == buyLoop(h, rt, shares, 0, <<>>)

\* Mutant of buyFinal: nothing is bought.
buyFinal_NoShares(h, rt) == buy(h, rt, 0)

\* OrderBook::buyFinal
buyFinal(h, rt) == buy(h, rt, 1000)

\* ----------------------------------------------------------------- std::cin

\* The stream over the characters buf: pos is the next character to read and
\* ok is good().
IStream(buf) == [buf |-> buf, pos |-> 1, ok |-> TRUE]

isspace(ch) == ch \in {" ", "\n"}

DigitValue ==
    ("0" :> 0) @@ ("1" :> 1) @@ ("2" :> 2) @@ ("3" :> 3) @@ ("4" :> 4) @@
    ("5" :> 5) @@ ("6" :> 6) @@ ("7" :> 7) @@ ("8" :> 8) @@ ("9" :> 9)

isdigit(ch) == ch \in DOMAIN DigitValue

\* The first position from p on that holds no white space (Len(buf) + 1 when
\* there is none): what the sentry of a formatted input function skips.
RECURSIVE SkipSpace(_, _)
SkipSpace(buf, p) ==
    IF p <= Len(buf) /\ isspace(buf[p]) THEN SkipSpace(buf, p + 1) ELSE p

\* The first position from p on that holds no digit.
RECURSIVE DigitsEnd(_, _)
DigitsEnd(buf, p) ==
    IF p <= Len(buf) /\ isdigit(buf[p]) THEN DigitsEnd(buf, p + 1) ELSE p

\* The value of the digits buf[p .. q - 1], most significant first, on top of
\* acc.
RECURSIVE Accumulate(_, _, _, _)
Accumulate(buf, p, q, acc) ==
    IF p >= q THEN acc
    ELSE Accumulate(buf, p + 1, q, 10 * acc + DigitValue[buf[p]])

\* cin >> c for a char c.  set tells whether c was stored into; the stream is
\* no longer good when it was not good before or held white space only.
ExtractChar(in) ==
    LET p == SkipSpace(in.buf, in.pos) IN
    IF ~in.ok THEN [in |-> in, set |-> FALSE, val |-> ""]
    ELSE IF p > Len(in.buf)
    THEN [in |-> [in EXCEPT !.pos = p, !.ok = FALSE], set |-> FALSE,
          val |-> ""]
    ELSE [in |-> [in EXCEPT !.pos = p + 1], set |-> TRUE, val |-> in.buf[p]]

\* Mutant of ExtractInt: a failed extraction stores nothing and leaves the
\* stream good, the offending word being skipped.
ExtractInt_SkipsBadWord(in) ==
    LET p    == SkipSpace(in.buf, in.pos)
        neg  == p <= Len(in.buf) /\ in.buf[p] = "-"
        q    == IF p <= Len(in.buf) /\ in.buf[p] \in {"+", "-"}
                THEN p + 1 ELSE p
        e    == DigitsEnd(in.buf, q)
        n    == Accumulate(in.buf, q, e, 0)
    IN
    IF ~in.ok \/ p > Len(in.buf) \/ e = q
    THEN [in |-> [in EXCEPT !.pos = IF e + 1 > Len(in.buf) + 1
                                    THEN Len(in.buf) + 1 ELSE e + 1],
          set |-> TRUE, val |-> 0]
    ELSE [in |-> [in EXCEPT !.pos = e, !.ok = e <= Len(in.buf)],
          set |-> TRUE, val |-> IF neg THEN -n ELSE n]

\* cin >> v for an int or long long v (values within the range of the type).
\* Nothing is stored when the stream was not good or held white space only;
\* 0 is stored when the characters found are no number; the stream is no
\* longer good after a failure or when the number ran to the end of input.
ExtractInt(in) ==
    LET p    == SkipSpace(in.buf, in.pos)
        neg  == p <= Len(in.buf) /\ in.buf[p] = "-"
        q    == IF p <= Len(in.buf) /\ in.buf[p] \in {"+", "-"}
                THEN p + 1 ELSE p
        e    == DigitsEnd(in.buf, q)
        n    == Accumulate(in.buf, q, e, 0)
    IN
    IF ~in.ok THEN [in |-> in, set |-> FALSE, val |-> 0]
    ELSE IF p > Len(in.buf)
    THEN [in |-> [in EXCEPT !.pos = p, !.ok = FALSE], set |-> FALSE,
          val |-> 0]
    ELSE IF e = q
    THEN [in |-> [in EXCEPT !.pos = q, !.ok = FALSE], set |-> TRUE,
          val |-> 0]
    ELSE [in |-> [in EXCEPT !.pos = e, !.ok = e <= Len(in.buf)],
          set |-> TRUE, val |-> IF neg THEN -n ELSE n]

\* The values the variable read by extraction x may hold afterwards.
ValuesRead(x) == IF x.set THEN {x.val} ELSE Indeterminate

\* The characters of the lines ls, each line followed by a newline.
RECURSIVE Flatten(_)
Flatten(ls) ==
    IF ls = <<>> THEN <<>> ELSE Head(ls) \o <<"\n">> \o Flatten(Tail(ls))

\* The input streams explored: up to MaxLines lines.
Streams ==
    {Flatten(ls) : ls \in UNION {[1 .. n -> Lines] : n \in 0 .. MaxLines}}

\* No call of buy is in progress.
NoFrame == [active |-> FALSE]

\* ------------------------------------------------------------------ actions

Init ==
    /\ heap = <<>>
    /\ root = Null
    /\ globalInsertionCounter = 0
    /\ lastOp = [kind |-> "init"]
    /\ nAdded = 0
    /\ nRemoved = 0
    /\ usedSequences = {}
    /\ phase = "adds"
    /\ cin = IStream(<<>>)
    /\ loop_i = 0
    /\ cout = <<>>
    /\ pc = "loop"
    /\ calls = <<>>
    /\ buyFrame = NoFrame

\* + <price> <size>
Add(price, size, prio) ==
    /\ nAdded < MaxAdds
    /\ LET res == add(heap, root, globalInsertionCounter, price, size, prio) IN
         /\ heap' = res.h
         /\ root' = res.r
         /\ globalInsertionCounter' = res.c
         /\ usedSequences' =
                usedSequences \cup {res.h[Len(res.h)].insertion_id}
    /\ lastOp' = [kind |-> "add", price |-> price, size |-> size,
                  priority |-> prio]
    /\ nAdded' = nAdded + 1
    /\ phase' = IF phase = "adds" /\ size > 0 THEN "adds" ELSE "mixed"
    /\ UNCHANGED nRemoved
    /\ UNCHANGED io
    /\ UNCHANGED buyFrame

\* - <position>
RemoveByPosition(pos) ==
    /\ LET res == removeByPosition(heap, root, pos) IN
         /\ heap' = res.h
         /\ root' = res.r
    /\ lastOp' = [kind |-> "cancel", pos |-> pos]
    /\ nRemoved' = IF 0 <= pos /\ pos < getSize(heap, root)
                   THEN nRemoved + 1 ELSE nRemoved
    /\ phase' = "mixed"
    /\ UNCHANGED <<globalInsertionCounter, nAdded, usedSequences>>
    /\ UNCHANGED io
    /\ UNCHANGED buyFrame

\* = <shares>
Buy(shares) ==
    /\ LET res == buy(heap, root, shares) IN
         /\ heap' = res.h
         /\ root' = res.r
         /\ lastOp' = [kind |-> "buy", shares |-> shares, cost |-> res.cost]
         /\ nRemoved' = nRemoved
                + Cardinality({i \in DOMAIN res.log : res.log[i].removed})
    /\ phase' = IF phase = "adds" THEN "executed" ELSE "mixed"
    /\ UNCHANGED <<globalInsertionCounter, nAdded, usedSequences>>
    /\ UNCHANGED io
    /\ UNCHANGED buyFrame

Next ==
    \/ \E in \in AddInputs, prio \in Priorities : Add(in[1], in[2], prio)
    \/ \E pos \in Positions : RemoveByPosition(pos)
    \/ \E shares \in BuyShares : Buy(shares)

Spec == Init /\ [][Next]_vars

\* The tree alone: orders come and go by add and removeByPosition, which
\* gives every shape of treap over the keys.
NextTreap ==
    \/ \E in \in TreapAddInputs, prio \in Priorities : Add(in[1], in[2], prio)
    \/ \E pos \in Positions : RemoveByPosition(pos)

SpecTreap == Init /\ [][NextTreap]_vars

\* The same book driven by a caller that keeps to size > 0 on add.
NextValid ==
    \/ \E in \in ValidAddInputs, prio \in Priorities : Add(in[1], in[2], prio)
    \/ \E pos \in Positions : RemoveByPosition(pos)
    \/ \E shares \in FillShares : Buy(shares)

SpecValid == Init /\ [][NextValid]_vars

\* ------------------------------------------- buy, one iteration at a time

\* The values a long long may hold after an arithmetic operation whose exact
\* result is v: v when long long holds it; otherwise the operation overflowed,
\* which is undefined: the wrapped value, or either end of the type.
SignedResult(v) ==
    IF -LongLongMax - 1 <= v /\ v <= LongLongMax THEN {v}
    ELSE {LongLongOf(v), LongLongMax, -LongLongMax - 1}

\* A call buy(shares) starts: long long cost = 0.  size0, iterations and
\* overflowed are history.
BuyCall(shares) ==
    /\ ~buyFrame.active
    /\ buyFrame' = [active |-> TRUE, shares |-> shares, cost |-> 0,
                    shares0 |-> shares, heap0 |-> heap, root0 |-> root,
                    iterations |-> 0, overflowed |-> FALSE]
    /\ lastOp' = [kind |-> "call", shares |-> shares]
    /\ UNCHANGED <<heap, root, globalInsertionCounter, nAdded, nRemoved,
                   usedSequences, phase>>
    /\ UNCHANGED io

\* Mutant of loopBody: an order is removed only when the iteration took
\* units from it.
loopBody_KeepsUnfilled(h, rt, shares, cost) ==
    LET top     == getByRank(h, rt, 0)
        canFill == Min(shares, h[top].sizeShares)
        h1      == [h EXCEPT ![top].sizeShares = @ - canFill]
        gone    == h1[top].sizeShares = 0 /\ canFill # 0
        rem     == IF gone THEN removeByRank(h1, rt, 0)
                   ELSE [h |-> h1, r |-> rt]
        cost2   == cost + canFill * h[top].price
        shares2 == shares - canFill
    IN  IF top = Null THEN {}
        ELSE { [h |-> rem.h, r |-> rem.r, gone |-> gone, cost |-> c, shares |-> s,
                overflowed |-> SignedResult(cost2) # {cost2}
                               \/ SignedResult(shares2) # {shares2}] :
               c \in SignedResult(cost2), s \in SignedResult(shares2) }

\* The body of the while loop of buy, from the book and the locals shares and
\* cost: the outcomes the iteration can have, each the book and the locals
\* after it.  gone and overflowed are history.
loopBody(h, rt, shares, cost) ==
    LET top     == getByRank(h, rt, 0)
        canFill == Min(shares, h[top].sizeShares)
        h1      == [h EXCEPT ![top].sizeShares = @ - canFill]
        gone    == h1[top].sizeShares = 0
        rem     == IF gone THEN removeByRank(h1, rt, 0)
                   ELSE [h |-> h1, r |-> rt]
        cost2   == cost + canFill * h[top].price
        shares2 == shares - canFill
    IN  IF top = Null THEN {}
        ELSE { [h |-> rem.h, r |-> rem.r, gone |-> gone, cost |-> c, shares |-> s,
                overflowed |-> SignedResult(cost2) # {cost2}
                               \/ SignedResult(shares2) # {shares2}] :
               c \in SignedResult(cost2), s \in SignedResult(shares2) }

\* Mutant of LoopCondition: while (shares && root).
LoopCondition_NonZero ==
    buyFrame.active /\ buyFrame.shares # 0 /\ root # Null

\* The condition of the while loop of buy, in a call that is under way.
LoopCondition == buyFrame.active /\ buyFrame.shares > 0 /\ root # Null

\* One iteration of the while loop of buy.
BuyIteration ==
    /\ LoopCondition
    /\ \E o \in loopBody(heap, root, buyFrame.shares, buyFrame.cost) :
          /\ heap' = o.h
          /\ root' = o.r
          /\ nRemoved' = IF o.gone THEN nRemoved + 1 ELSE nRemoved
          /\ buyFrame' = [buyFrame EXCEPT
                 !.cost = o.cost, !.shares = o.shares,
                 !.iterations = @ + 1,
                 !.overflowed = @ \/ o.overflowed]
    /\ lastOp' = [kind |-> "iteration"]
    /\ UNCHANGED <<globalInsertionCounter, nAdded, usedSequences, phase>>
    /\ UNCHANGED io

\* The loop has ended, by its condition or by the break: return cost.
BuyReturn ==
    /\ buyFrame.active
    /\ LoopCondition => getByRank(heap, root, 0) = Null
    /\ buyFrame' = NoFrame
    /\ lastOp' = [kind |-> "buy", shares |-> buyFrame.shares0,
                  cost |-> buyFrame.cost]
    /\ phase' = "mixed"
    /\ UNCHANGED <<heap, root, globalInsertionCounter, nAdded, nRemoved,
                   usedSequences>>
    /\ UNCHANGED io

NextLoop ==
    \/ \E in \in LoopAddInputs, prio \in Priorities :
          ~buyFrame.active /\ Add(in[1], in[2], prio)
    \/ \E shares \in LoopBuyShares : BuyCall(shares)
    \/ BuyIteration
    \/ BuyReturn

\* A call that was started goes on to its end: the program is sequential and
\* nothing holds it up.  The fairness of BuyIteration is WF_vars(BuyIteration)
\* written out, with LoopCondition for ENABLED <<BuyIteration>>_vars: the
\* body acts whenever the condition holds, and each time counts an iteration.
SpecLoop ==
    /\ Init /\ [][NextLoop]_vars
    /\ ([]<>(~LoopCondition) \/ []<><<BuyIteration>>_vars)
    /\ WF_vars(BuyReturn)

\* ------------------------------------------------------------------- main

\* main before its loop: an empty orderbook, and cin over one of the streams.
InitMain ==
    /\ heap = <<>>
    /\ root = Null
    /\ globalInsertionCounter = 0
    /\ lastOp = [kind |-> "init"]
    /\ nAdded = 0
    /\ nRemoved = 0
    /\ usedSequences = {}
    /\ phase = "adds"
    /\ \E buf \in Streams : cin = IStream(buf)
    /\ loop_i = 0
    /\ cout = <<>>
    /\ pc = "loop"
    /\ calls = <<>>
    /\ buyFrame = NoFrame

\* One iteration of the loop that read '+': cin >> price >> sz, then
\* orderbook.add((int)price, sz).
MainAdd(prio) ==
    /\ pc = "loop"
    /\ loop_i < NUM_ENTRIES
    /\ LET rc == ExtractChar(cin)
           rp == ExtractInt(rc.in)
           rs == ExtractInt(rp.in)
       IN  /\ rc.in.ok
           /\ rc.val = "+"
           /\ cin' = rs.in
           /\ \E price \in {IntOf(v) : v \in ValuesRead(rp)},
                 sz \in ValuesRead(rs) :
                 LET res == add(heap, root, globalInsertionCounter,
                                price, sz, prio)
                 IN  /\ heap' = res.h
                     /\ root' = res.r
                     /\ globalInsertionCounter' = res.c
                     /\ usedSequences' = usedSequences
                            \cup {res.h[Len(res.h)].insertion_id}
                     /\ lastOp' = [kind |-> "add", price |-> price,
                                   size |-> sz, priority |-> prio]
                     /\ calls' = Append(calls, [kind |-> "add",
                                   price |-> price, size |-> sz])
                     /\ phase' = IF phase = "adds" /\ sz > 0
                                 THEN "adds" ELSE "mixed"
    /\ loop_i' = loop_i + 1
    /\ nAdded' = nAdded + 1
    /\ UNCHANGED <<nRemoved, cout, pc>>
    /\ UNCHANGED buyFrame

\* One iteration that read '-': cin >> pos, then
\* orderbook.removeByPosition(pos).
MainRemoveByPosition ==
    /\ pc = "loop"
    /\ loop_i < NUM_ENTRIES
    /\ LET rc == ExtractChar(cin)
           rp == ExtractInt(rc.in)
       IN  /\ rc.in.ok
           /\ rc.val = "-"
           /\ cin' = rp.in
           /\ \E pos \in ValuesRead(rp) :
                 LET res == removeByPosition(heap, root, pos)
                 IN  /\ heap' = res.h
                     /\ root' = res.r
                     /\ lastOp' = [kind |-> "cancel", pos |-> pos]
                     /\ calls' = Append(calls,
                                        [kind |-> "cancel", pos |-> pos])
                     /\ nRemoved' =
                            IF 0 <= pos /\ pos < getSize(heap, root)
                            THEN nRemoved + 1 ELSE nRemoved
    /\ loop_i' = loop_i + 1
    /\ phase' = "mixed"
    /\ UNCHANGED <<globalInsertionCounter, nAdded, usedSequences, cout, pc>>
    /\ UNCHANGED buyFrame

\* One iteration that read '=': cin >> sz, then orderbook.buy(sz), whose
\* result is dropped.
MainBuy ==
    /\ pc = "loop"
    /\ loop_i < NUM_ENTRIES
    /\ LET rc == ExtractChar(cin)
           rs == ExtractInt(rc.in)
       IN  /\ rc.in.ok
           /\ rc.val = "="
           /\ cin' = rs.in
           /\ \E sz \in ValuesRead(rs) :
                 LET res == buy(heap, root, sz)
                 IN  /\ heap' = res.h
                     /\ root' = res.r
                     /\ lastOp' = [kind |-> "buy", shares |-> sz,
                                   cost |-> res.cost]
                     /\ calls' = Append(calls,
                                        [kind |-> "buy", shares |-> sz])
                     /\ nRemoved' = nRemoved + Cardinality(
                            {k \in DOMAIN res.log : res.log[k].removed})
    /\ loop_i' = loop_i + 1
    /\ phase' = IF phase = "adds" THEN "executed" ELSE "mixed"
    /\ UNCHANGED <<globalInsertionCounter, nAdded, usedSequences, cout, pc>>
    /\ UNCHANGED buyFrame

\* One iteration that read any other character: the else branch.
MainIgnore ==
    /\ pc = "loop"
    /\ loop_i < NUM_ENTRIES
    /\ LET rc == ExtractChar(cin)
       IN  /\ rc.in.ok
           /\ rc.val \notin {"+", "-", "="}
           /\ cin' = rc.in
    /\ loop_i' = loop_i + 1
    /\ lastOp' = [kind |-> "none"]
    /\ UNCHANGED <<heap, root, globalInsertionCounter, nAdded, nRemoved,
                   usedSequences, phase, cout, pc, calls>>
    /\ UNCHANGED buyFrame

\* The loop ends: NUM_ENTRIES iterations were made, or cin >> c left cin not
\* good().
MainBreak ==
    /\ pc = "loop"
    /\ \/ /\ loop_i >= NUM_ENTRIES
          /\ cin' = cin
       \/ /\ loop_i < NUM_ENTRIES
          /\ ~ExtractChar(cin).in.ok
          /\ cin' = ExtractChar(cin).in
    /\ pc' = "final"
    /\ lastOp' = [kind |-> "none"]
    /\ UNCHANGED <<heap, root, globalInsertionCounter, nAdded, nRemoved,
                   usedSequences, phase, loop_i, cout, calls>>
    /\ UNCHANGED buyFrame

\* cout << orderbook.buyFinal() << "\n"; return 0;
MainBuyFinal ==
    /\ pc = "final"
    /\ LET res == buyFinal(heap, root)
       IN  /\ heap' = res.h
           /\ root' = res.r
           /\ cout' = Append(cout, res.cost)
           /\ lastOp' = [kind |-> "buyFinal", cost |-> res.cost]
           /\ calls' = Append(calls, [kind |-> "buyFinal"])
           /\ nRemoved' = nRemoved + Cardinality(
                  {k \in DOMAIN res.log : res.log[k].removed})
    /\ pc' = "done"
    /\ phase' = "mixed"
    /\ UNCHANGED <<globalInsertionCounter, nAdded, usedSequences, cin,
                   loop_i>>
    /\ UNCHANGED buyFrame

NextMain ==
    \/ \E prio \in Priorities : MainAdd(prio)
    \/ MainRemoveByPosition
    \/ MainBuy
    \/ MainIgnore
    \/ MainBreak
    \/ MainBuyFinal

SpecMain == InitMain /\ [][NextMain]_vars


\* ------------------------------------------------- what the claims refer to

\* Price-time priority as the design states it: a precedes b.
Precedes(a, b) ==
    \/ a.price < b.price
    \/ a.price = b.price /\ a.sequence < b.sequence

\* The resting orders now, by rank.
Book == RankList(heap, root)

\* tree.size()
Size == getSize(heap, root)

\* The orders of the nodes reachable from the root, as a set.
Resting(h, rt) ==
    LET nodes == InOrder(h, rt)
    IN  {Payload(h, nodes[i]) : i \in DOMAIN nodes}

\* s without its i-th element.
RemoveAt(s, i) ==
    [k \in 1 .. Len(s) - 1 |-> IF k < i THEN s[k] ELSE s[k + 1]]

\* The orders of set S in ascending (price, sequence) order.
RECURSIVE SortedOrders(_)
SortedOrders(S) ==
    IF S = {} THEN <<>>
    ELSE LET first == CHOOSE a \in S : \A b \in S \ {a} : Precedes(a, b)
         IN  <<first>> \o SortedOrders(S \ {first})

\* The reference walk: take min(remaining, quantity) from each order of the
\* sequence s in turn and add up price * units taken.
RECURSIVE GreedyCost(_, _)
GreedyCost(s, remaining) ==
    IF s = <<>> \/ remaining <= 0 THEN 0
    ELSE LET taken == IF remaining < Head(s).quantity THEN remaining
                      ELSE Head(s).quantity
         IN  Head(s).price * taken + GreedyCost(Tail(s), remaining - taken)

RECURSIVE TotalQuantity(_)
TotalQuantity(s) ==
    IF s = <<>> THEN 0 ELSE Head(s).quantity + TotalQuantity(Tail(s))

RECURSIVE TotalValue(_)
TotalValue(s) ==
    IF s = <<>> THEN 0
    ELSE Head(s).price * Head(s).quantity + TotalValue(Tail(s))

\* ------------------------------------------------------------------ claims

\* C1: after any sequence of add, removeByPosition and buy calls the resting
\* orders enumerated by rank are strictly increasing by (price, sequence):
\* getByRank(r).price <= getByRank(r+1).price and, when the prices are equal,
\* getByRank(r).sequence < getByRank(r+1).sequence; hence the order at rank 0
\* precedes every other order reachable in the tree.
C1_RankOrderIncreasing ==
    /\ \A r \in 1 .. Size - 1 :
          /\ Book[r].price <= Book[r + 1].price
          /\ Book[r].price = Book[r + 1].price
                => Book[r].sequence < Book[r + 1].sequence
    /\ \A o \in Resting(heap, root) :
          o = Book[1] \/ Precedes(Book[1], o)

\* A book of two orders of one price, left by a buy that exhausted an order.
C1_Witness ==
    /\ lastOp.kind = "buy"
    /\ nRemoved >= 1
    /\ Size = 2
    /\ Book[1].price = Book[2].price


\* What C2 says of one call buy(shares) on the book (h, rt) that returned cost.
CostEqualsGreedyWalk(h, rt, shares, cost) ==
    (0 < shares /\ shares <= TotalQuantity(RankList(h, rt)))
    => cost = GreedyCost(SortedOrders(Resting(h, rt)), shares)

\* C2: after add calls only (each size > 0) on an empty book, one buy(Q) with
\* 0 < Q <= total resting quantity returns exactly the cost of the reference
\* walk over the orders in ascending (price, sequence) order, taking
\* min(remaining, quantity) from each.
C2_CostEqualsGreedyWalk ==
    [][(phase = "adds" /\ phase' = "executed")
       => CostEqualsGreedyWalk(heap, root, lastOp'.shares, lastOp'.cost)]_vars

\* Three adds, then a buy of 6 that exhausted one order and left part of the
\* next.
C2_Witness ==
    /\ phase = "executed"
    /\ lastOp.shares = 6
    /\ nAdded = 3
    /\ nRemoved = 1
    /\ Size = 2
    /\ Book[1].quantity < 3

\* What C3 says of one call buy(shares) that returned cost and took the book
\* from (h, rt) to (h2, rt2).
PriceTimePriority(h, rt, shares, cost, h2, rt2) ==
    LET fills  == buy(h, rt, shares).log
        before == RankList(h, rt)
        after  == RankList(h2, rt2)
        left   == Resting(h2, rt2)
    IN
    /\ \A i \in DOMAIN fills :
          LET e   == fills[i]
              top == Payload(e.heap, e.node)
          IN  \A o \in Resting(e.heap, e.root) : o = top \/ Precedes(top, o)
    /\ \A a \in DOMAIN before, b \in DOMAIN before :
          (/\ before[a].price = before[b].price
           /\ before[a].sequence < before[b].sequence
           /\ before[b] \notin left)
          => \A o \in left : o.sequence # before[a].sequence
    /\ (/\ Len(before) = 2
        /\ before[1].price = 10 /\ before[1].quantity = 5
        /\ before[2].price = 10 /\ before[2].quantity = 3
        /\ shares = 6)
       => /\ cost = 60
          /\ after = <<[price |-> 10, quantity |-> 2,
                        sequence |-> before[2].sequence]>>

\* C3: buy never takes from a resting order while another resting order with a
\* smaller (price, sequence) key exists, so among orders of one price the
\* earlier one is gone before the later one is touched; and on a book holding
\* (10, 5) then (10, 3), buy(6) returns 60 and leaves exactly one order,
\* price 10 and quantity 2, at rank 0.
C3_PriceTimePriority ==
    [][lastOp'.kind = "buy" =>
          PriceTimePriority(heap, root, lastOp'.shares, lastOp'.cost,
                            heap', root')]_vars

\* add(10, 5), add(10, 3), buy(6) on an empty book: cost 60, and the second
\* order rests alone with 2 units.
C3_Witness ==
    /\ lastOp = [kind |-> "buy", shares |-> 6, cost |-> 60]
    /\ nAdded = 2
    /\ Size = 1
    /\ Book[1] = [price |-> 10, quantity |-> 2, sequence |-> 1]


\* What C4 says of one call buy(shares) that returned cost and took a book of
\* orders with quantity > 0 from (h, rt) to (h2, rt2).
PartialFillOnShortBook(h, rt, shares, cost, h2, rt2) ==
    LET before == RankList(h, rt) IN
    (\A o \in Resting(h, rt) : o.quantity > 0) =>
        /\ shares > TotalQuantity(before)
              => /\ cost = TotalValue(before)
                 /\ rt2 = Null
                 /\ RankList(h2, rt2) = <<>>
        /\ rt = Null => cost = 0 /\ rt2 = Null
        /\ (/\ Len(before) = 1
            /\ before[1].price = 7 /\ before[1].quantity = 4
            /\ shares = 10)
              => cost = 28 /\ rt2 = Null

\* C4: on a book of orders with quantity > 0, buy(Q) with Q greater than the
\* total resting quantity returns the sum of price * quantity over all resting
\* orders and leaves the book empty, raising nothing; buy on an empty book
\* returns 0 and leaves it empty; a book holding only (7, 4) gives
\* buy(10) = 28 and is then empty, so that a following buy(1) returns 0.
C4_ShortBookIsPartialFill ==
    [][lastOp'.kind = "buy" =>
          PartialFillOnShortBook(heap, root, lastOp'.shares, lastOp'.cost,
                                 heap', root')]_vars

\* add(7, 4) then buy(10): the call returned 28 and the book is empty.
C4_Witness ==
    /\ lastOp = [kind |-> "buy", shares |-> 10, cost |-> 28]
    /\ root = Null
    /\ heap = <<Deleted>>
    /\ nAdded = 1
    /\ phase = "executed"

\* What C5 says of one call removeByPosition(pos) that took the book from
\* (h, rt) to (h2, rt2).
CancelRemovesRank(h, rt, pos, h2, rt2) ==
    (0 <= pos /\ pos < getSize(h, rt)) =>
        /\ getSize(h2, rt2) = getSize(h, rt) - 1
        /\ RankList(h2, rt2) = RemoveAt(RankList(h, rt), pos + 1)
        /\ \A k \in 0 .. getSize(h, rt) - 1 :
              /\ k < pos => getByRank(h2, rt2, k) = getByRank(h, rt, k)
              /\ k > pos => getByRank(h2, rt2, k - 1) = getByRank(h, rt, k)
        /\ h2[getByRank(h, rt, pos)] = Deleted

\* C5: removeByPosition(r) with 0 <= r < size removes exactly the order at
\* rank r: the size is one less, the orders at ranks below r keep their rank,
\* those above r move down by one, and the price, quantity and sequence of
\* every surviving order are unchanged.
C5_CancelRemovesThatRank ==
    [][lastOp'.kind = "cancel" =>
          CancelRemovesRank(heap, root, lastOp'.pos, heap', root')]_vars

\* A added, then a better-ranked B; removeByPosition(0) removed B (the second
\* node allocated) and rank 0 is A again.
C5_Witness ==
    /\ lastOp = [kind |-> "cancel", pos |-> 0]
    /\ nAdded = 2
    /\ heap[2] = Deleted
    /\ Size = 1
    /\ Book[1].sequence = 0

\* C6: removeByPosition(r) with r outside [0, size) changes nothing: the heap
\* (every node's fields, so the orders, their quantities, the child pointers
\* and the subtree sizes), the root and the sequence counter are as before.
C6_OutOfRangeCancelIsNoOp ==
    [][(lastOp'.kind = "cancel"
        /\ ~(0 <= lastOp'.pos /\ lastOp'.pos < Size))
       => (heap' = heap /\ root' = root
           /\ globalInsertionCounter' = globalInsertionCounter)]_vars

\* removeByPosition(size) on a book of two orders, nothing removed so far.
C6_Witness ==
    /\ lastOp.kind = "cancel"
    /\ Size = 2
    /\ lastOp.pos = 2
    /\ nRemoved = 0

\* C7: the root's subtree_size (0 for an empty tree) is the number of orders
\* added minus the number removed, by a removeByPosition in range or by the
\* quantity reaching zero in buy.
C7_SizeIsAddedMinusRemoved == Size = nAdded - nRemoved

\* Three orders added, two removed, one of them by a buy.
C7_Witness ==
    /\ nAdded = 3
    /\ nRemoved = 2
    /\ Size = 1
    /\ lastOp.kind = "buy"
    /\ lastOp.cost > 0


\* The sequences of the resting orders.
SequencesOf(h, rt) == {o.sequence : o \in Resting(h, rt)}

\* What C8 says of one call of kind `kind`, the k-th call of add when it is
\* one (counting from 0), that took the counter from c to c2 and the book from
\* (h, rt) to (h2, rt2); used holds every sequence handed out before it.
SequenceStep(kind, k, used, c, h, rt, c2, h2, rt2) ==
    /\ c2 >= c
    /\ kind = "add" =>
          /\ c2 = c + 1
          /\ SequencesOf(h2, rt2) = SequencesOf(h, rt) \cup {k}
          /\ k \notin SequencesOf(h, rt)
          /\ k \notin used
    /\ kind # "add" => c2 = c

\* C8: the sequence counter starts at 0, every add increments it by exactly 1,
\* no other operation changes it and it never decreases; the k-th added order
\* (from 0) has sequence k, no two resting orders share a sequence, and a
\* sequence handed out once is never handed out again.
C8_SequenceCounter ==
    /\ globalInsertionCounter = 0
    /\ [][SequenceStep(lastOp'.kind, nAdded, usedSequences,
                       globalInsertionCounter, heap, root,
                       globalInsertionCounter', heap', root')]_vars
    /\ [](Cardinality(SequencesOf(heap, root)) = Size)

\* The third add, made after an order was removed: the new order has
\* sequence 2.
C8_Witness ==
    /\ lastOp.kind = "add"
    /\ nAdded = 3
    /\ nRemoved >= 1
    /\ globalInsertionCounter = 3
    /\ 2 \in SequencesOf(heap, root)

\* What C9 says of one call of buy that took the book from (h, rt) to
\* (h2, rt2): every order still resting was resting before, with the same
\* price and at least the quantity it has now.
FillsOnlyDecrease(h, rt, h2, rt2) ==
    \A o2 \in Resting(h2, rt2) :
        \E o \in Resting(h, rt) :
            /\ o.sequence = o2.sequence
            /\ o.price = o2.price
            /\ o2.quantity <= o.quantity

\* C9: when every add has size > 0, every resting order has quantity > 0 in
\* every state between operations: a fill only decreases a quantity, and an
\* order whose quantity reaches 0 in buy is removed before buy returns.
C9_RestingQuantityPositive ==
    /\ [](\A k \in 1 .. Size : Book[k].quantity > 0)
    /\ [](\A o \in Resting(heap, root) : o.quantity > 0)
    /\ [][lastOp'.kind = "buy" =>
             FillsOnlyDecrease(heap, root, heap', root')]_vars

\* A buy of 6 exhausted one order and left 1 unit of the next.
C9_Witness ==
    /\ lastOp.kind = "buy"
    /\ lastOp.shares = 6
    /\ nRemoved = 1
    /\ Size >= 1
    /\ Book[1].quantity = 1

\* C10 (as claimed; the code has no such check): an add with size <= 0 creates
\* no resting order, so the book's contents and size are as before the call.
C10_NonPositiveAddIgnored ==
    [][(lastOp'.kind = "add" /\ lastOp'.size <= 0)
       => (RankList(heap', root') = RankList(heap, root)
           /\ getSize(heap', root') = getSize(heap, root))]_vars

\* What C11 says of one call add(price, size), the one that hands out the
\* sequence seq, that took the book from (h, rt) to (h2, rt2).
AddAtNaturalRank(h, rt, price, size, seq, h2, rt2) ==
    LET before == RankList(h, rt)
        after  == RankList(h2, rt2)
        rank   == Cardinality({k \in DOMAIN before : before[k].price <= price})
    IN
    /\ Len(after) = Len(before) + 1
    /\ after[rank + 1] = [price |-> price, quantity |-> size, sequence |-> seq]
    /\ getByRank(h2, rt2, rank) = Len(h) + 1
    /\ \A k \in 1 .. rank :
          /\ before[k].price <= price
          /\ after[k] = before[k]
          /\ getByRank(h2, rt2, k - 1) = getByRank(h, rt, k - 1)
    /\ \A k \in rank + 1 .. Len(before) :
          /\ before[k].price > price
          /\ after[k + 1] = before[k]
          /\ getByRank(h2, rt2, k) = getByRank(h, rt, k - 1)

\* C11: immediately after add(p, q) the new order's rank is the number of
\* orders that rested before the call with price <= p (behind every order of
\* the same price, ahead of every higher-priced one); the orders formerly at a
\* lower rank keep their rank, those formerly at that rank or higher move up
\* by exactly one, and no existing order's price, quantity or sequence changes.
C11_AddAtNaturalRank ==
    [][lastOp'.kind = "add" =>
          AddAtNaturalRank(heap, root, lastOp'.price, lastOp'.size,
                           globalInsertionCounter, heap', root')]_vars

\* The third add, of price 7, on a book holding a 7 and a 10: the new order is
\* at rank 1, behind the older 7 and ahead of the 10, which moved to rank 2.
C11_Witness ==
    /\ lastOp.kind = "add"
    /\ lastOp.price = 7
    /\ nAdded = 3
    /\ Size = 3
    /\ Book[1].price = 7 /\ Book[1].sequence < 2
    /\ Book[2].sequence = 2
    /\ Book[3].price = 10

\* What C12 says of getByRank on the tree rooted at n, for the ranks from two
\* below the first to two above the last.
RankLookup(h, n) ==
    LET nodes == InOrder(h, n) IN
    \A r \in -2 .. Len(nodes) + 1 :
        getByRank(h, n, r) =
            IF 0 <= r /\ r < Len(nodes) THEN nodes[r + 1] ELSE Null

\* C12: on the book's tree and on every subtree of it, getByRank(r) is the
\* r-th node (from 0) of the in-order traversal when 0 <= r < size and null
\* for every other r, negative r and the empty tree included; it is a lookup
\* (a value computed from the tree, which it leaves as it is).
C12_RankLookup ==
    /\ RankLookup(heap, root)
    /\ \A n \in 1 .. Len(heap) : ~heap[n].freed => RankLookup(heap, n)

\* A tree of three nodes whose root has both children: rank 1 is the root,
\* ranks -1 and 3 are not found.
C12_Witness ==
    /\ Size = 3
    /\ heap[root].left # Null
    /\ heap[root].right # Null
    /\ getByRank(heap, root, 1) = root
    /\ getByRank(heap, root, -1) = Null
    /\ getByRank(heap, root, 3) = Null

\* The heap property on the tree rooted at n: every node reachable from n is
\* allocated and its priority is at least that of each of its children.
HeapOrdered(h, n) ==
    LET nodes == InOrder(h, n) IN
    \A i \in DOMAIN nodes :
        LET m == h[nodes[i]] IN
        /\ ~m.freed
        /\ m.left # Null => m.priority >= h[m.left].priority
        /\ m.right # Null => m.priority >= h[m.right].priority

\* C13: the heap property (priority of a node >= priority of each child,
\* equal priorities included) holds on the book's tree after every add (insert
\* with its rotations) and every removal by rank with its merge, in
\* removeByPosition and in buy; and on every such tree it holds for both trees
\* returned by treapSplit and for the tree returned by treapRemoveKey, at
\* every key.
C13_HeapProperty ==
    /\ HeapOrdered(heap, root)
    /\ \A key \in Keys :
          LET splitted == treapSplit(heap, root, key[1], key[2])
              removed  == treapRemoveKey(heap, root, key[1], key[2])
          IN  /\ HeapOrdered(splitted.h, splitted.first)
              /\ HeapOrdered(splitted.h, splitted.second)
              /\ HeapOrdered(removed.h, removed.r)

\* A removal whose merge left a root and a child of the same priority, on a
\* tree that a key splits into two non-empty trees and from which a key
\* removes a node.
C13_Witness ==
    /\ lastOp.kind = "cancel"
    /\ nRemoved = 1
    /\ Size = 2
    /\ heap[root].left # Null
    /\ heap[heap[root].left].priority = heap[root].priority
    /\ \E key \in Keys :
          LET splitted == treapSplit(heap, root, key[1], key[2])
          IN  splitted.first # Null /\ splitted.second # Null
    /\ \E key \in Keys :
          getSize(treapRemoveKey(heap, root, key[1], key[2]).h,
                  treapRemoveKey(heap, root, key[1], key[2]).r) = 1

\* Every node of the tree rooted at n has subtree_size = 1 + size(left) +
\* size(right), and the root's subtree_size is the number of nodes reachable
\* from it.
SizesConsistent(h, n) ==
    LET nodes == InOrder(h, n) IN
    /\ \A i \in DOMAIN nodes :
          LET m == h[nodes[i]] IN
          m.subtree_size = 1 + getSize(h, m.left) + getSize(h, m.right)
    /\ getSize(h, n) = Len(nodes)

\* What C14 says of the functions applied to the tree (h, rt): the two
\* rotations at every node that has the child they lift, treapSplit and
\* treapRemoveKey at every key, and treapMerge of the two trees of a split.
SizesAfterChange(h, rt) ==
    LET nodes == InOrder(h, rt) IN
    /\ \A i \in DOMAIN nodes :
          LET n == nodes[i] IN
          /\ h[n].left # Null =>
                SizesConsistent(rotateRight(h, n).h, rotateRight(h, n).r)
          /\ h[n].right # Null =>
                SizesConsistent(rotateLeft(h, n).h, rotateLeft(h, n).r)
    /\ \A key \in Keys :
          LET splitted == treapSplit(h, rt, key[1], key[2])
              merged   == treapMerge(splitted.h, splitted.first,
                                     splitted.second)
              removed  == treapRemoveKey(h, rt, key[1], key[2])
          IN  /\ SizesConsistent(splitted.h, splitted.first)
              /\ SizesConsistent(splitted.h, splitted.second)
              /\ getSize(splitted.h, splitted.first)
                    + getSize(splitted.h, splitted.second) = getSize(h, rt)
              /\ SizesConsistent(merged.h, merged.r)
              /\ getSize(merged.h, merged.r) = getSize(h, rt)
              /\ SizesConsistent(removed.h, removed.r)

\* C14: after every structural change every node of the tree has
\* subtree_size = 1 + size(left) + size(right), an absent child counting 0,
\* and the root's subtree_size is the number of nodes reachable from it: on
\* the book's tree after every add, removeByPosition and buy (insert with
\* rotations, removal by rank with merge), and on every such tree after a
\* rotation, a split, a merge and a removal by key.
C14_SubtreeSizes ==
    /\ SizesConsistent(heap, root)
    /\ SizesAfterChange(heap, root)

\* Three nodes in a chain to the left below a root that an add rotated to the
\* top: sizes 3, 2 and 1.
C14_Witness ==
    /\ lastOp.kind = "add"
    /\ Size = 3
    /\ root = 3
    /\ heap[root].left # Null
    /\ heap[root].right = Null
    /\ heap[heap[root].left].subtree_size = 2

\* What C15 says of one call of kind `kind` (with pos its position when it is
\* a removeByPosition) that took the book from (h, rt) to (h2, rt2).
BookTransition(kind, pos, h, rt, h2, rt2) ==
    /\ kind = "add" => rt2 # Null /\ getSize(h2, rt2) >= 1
    /\ (rt # Null /\ rt2 = Null) =>
          \/ kind = "cancel" /\ getSize(h, rt) = 1 /\ pos = 0
          \/ /\ kind = "buy"
             /\ LET nodes == InOrder(h, rt)
                IN  \A i \in DOMAIN nodes : h2[nodes[i]].freed

\* Each of the three operations, called on the book as it is, returns.
OperationsComplete ==
    /\ \A in \in AddInputs, prio \in Priorities :
          add(heap, root, globalInsertionCounter, in[1], in[2], prio).r # Null
    /\ \A pos \in Positions :
          removeByPosition(heap, root, pos).r \in 0 .. Len(heap)
    /\ \A shares \in BuyShares :
          LET res == buy(heap, root, shares)
          IN  res.shares = 0 \/ res.r = Null \/ shares <= 0

\* C15: the book is Empty (root null, size 0) or NonEmpty (root a node, size
\* at least 1) and has no terminal state: an add always leaves it NonEmpty; it
\* goes from NonEmpty to Empty only by a removeByPosition that removes the
\* single remaining order or by a buy that exhausts every resting order; and
\* in every reachable state add, removeByPosition and buy can be called, on
\* every input, and return.
C15_NoTerminalState ==
    /\ []((root = Null /\ Size = 0) \/ (root # Null /\ Size >= 1))
    /\ [][BookTransition(lastOp'.kind,
                         IF lastOp'.kind = "cancel" THEN lastOp'.pos ELSE 0,
                         heap, root, heap', root')]_vars
    /\ [](OperationsComplete)

\* A book of two orders emptied by one buy that exhausted both, on which an
\* add then gives a book of one order.
C15_Witness ==
    /\ lastOp.kind = "buy"
    /\ nAdded = 2
    /\ nRemoved = 2
    /\ root = Null
    /\ lastOp.cost > 0
    /\ add(heap, root, globalInsertionCounter, 7, 4, 1).r = 3

\* What C16 says of the step from (h, rt), with out printed so far, that ends
\* main at out2: one value is printed, the cost of the reference walk for 1000
\* units over the book as the commands left it.
FinalCostPrinted(h, rt, out, out2) ==
    /\ out = <<>>
    /\ out2 = <<GreedyCost(SortedOrders(Resting(h, rt)), 1000)>>

\* What C16 says of a buy made for an '=' command: nothing is printed, and
\* the book is the one the buy leaves.
FillNotPrinted(h, rt, shares, out, h2, rt2, out2) ==
    /\ out2 = out
    /\ h2 = buy(h, rt, shares).h
    /\ rt2 = buy(h, rt, shares).r

\* C16: when the loop over the command stream has ended main calls
\* buyFinal(), that is buy(1000), exactly once, on the book the processed
\* commands produced, and prints exactly one value, the cost it returned;
\* the costs returned for '=' commands are never printed, while their fills
\* change the book the final call sees.
C16_OneFinalBuyPrinted ==
    /\ [](pc # "done" =>
            /\ cout = <<>>
            /\ \A k \in DOMAIN calls : calls[k].kind # "buyFinal")
    /\ [](pc = "done" =>
            /\ Len(cout) = 1
            /\ cout[1] = lastOp.cost
            /\ calls # <<>>
            /\ \A k \in DOMAIN calls :
                  calls[k].kind = "buyFinal" <=> k = Len(calls))
    /\ [][(pc = "final" /\ pc' = "done") =>
             FinalCostPrinted(heap, root, cout, cout')]_vars
    /\ [][lastOp'.kind = "buy" =>
             FillNotPrinted(heap, root, lastOp'.shares, cout,
                            heap', root', cout')]_vars

\* The stream "+ 7 4", "+ 10 5", "= 6": the '=' took 4 at 7 and 2 at 10 and
\* printed nothing; the final buy took the 3 left at 10 and 30 was printed.
C16_Witness ==
    /\ pc = "done"
    /\ cout = <<30>>
    /\ calls = << [kind |-> "add", price |-> 7, size |-> 4],
                  [kind |-> "add", price |-> 10, size |-> 5],
                  [kind |-> "buy", shares |-> 6],
                  [kind |-> "buyFinal"] >>
    /\ root = Null

\* The pieces of buf between the separators sep; cur is the piece being read.
RECURSIVE SplitOn(_, _, _)
SplitOn(buf, sep, cur) ==
    IF buf = <<>> THEN (IF cur = <<>> THEN <<>> ELSE <<cur>>)
    ELSE IF Head(buf) = sep
    THEN <<cur>> \o SplitOn(Tail(buf), sep, <<>>)
    ELSE SplitOn(Tail(buf), sep, Append(cur, Head(buf)))

\* A word that is a decimal number: digits, after an optional minus sign.
IsNumber(w) ==
    LET digits == IF w # <<>> /\ Head(w) = "-" THEN Tail(w) ELSE w IN
    /\ digits # <<>>
    /\ \A k \in DOMAIN digits : digits[k] \in DOMAIN DigitValue

RECURSIVE NaturalOf(_)
NaturalOf(digits) ==
    IF digits = <<>> THEN 0
    ELSE 10 * NaturalOf(SubSeq(digits, 1, Len(digits) - 1))
            + DigitValue[digits[Len(digits)]]

NumberOf(w) == IF Head(w) = "-" THEN -NaturalOf(Tail(w)) ELSE NaturalOf(w)

\* The command a line of the stream stands for, as the design has it: '+'
\* with two numbers, '-' or '=' with one; anything else is malformed.
CommandOf(line) ==
    LET words == SplitOn(line, " ", <<>>) IN
    IF /\ Len(words) = 3 /\ words[1] = <<"+">>
       /\ IsNumber(words[2]) /\ IsNumber(words[3])
    THEN [kind |-> "add", price |-> NumberOf(words[2]),
          size |-> NumberOf(words[3])]
    ELSE IF Len(words) = 2 /\ words[1] = <<"-">> /\ IsNumber(words[2])
    THEN [kind |-> "cancel", pos |-> NumberOf(words[2])]
    ELSE IF Len(words) = 2 /\ words[1] = <<"=">> /\ IsNumber(words[2])
    THEN [kind |-> "buy", shares |-> NumberOf(words[2])]
    ELSE [kind |-> "malformed"]

\* The commands of the lines of buf, in order.
CommandsOf(buf) ==
    LET lines == SplitOn(buf, "\n", <<>>)
    IN  [k \in DOMAIN lines |-> CommandOf(lines[k])]

WellFormed(cmd) == cmd.kind # "malformed"

\* a is b with some elements left out.
RECURSIVE IsSubsequence(_, _)
IsSubsequence(a, b) ==
    IF a = <<>> THEN TRUE
    ELSE IF b = <<>> THEN FALSE
    ELSE IF Head(a) = Head(b) THEN IsSubsequence(Tail(a), Tail(b))
    ELSE IsSubsequence(a, Tail(b))

\* C17 (as claimed; the loop ends at the first numeric argument that cannot
\* be read): when main has ended, the well-formed commands of the stream
\* followed by the final buy are among the calls made, in stream order, and
\* they are all the calls made when no line is malformed; so also for the
\* well-formed commands that follow a malformed line.
C17_EveryCommandApplied ==
    pc = "done" =>
        LET cmds     == CommandsOf(cin.buf)
            expected == SelectSeq(cmds, WellFormed)
                            \o <<[kind |-> "buyFinal"]>>
        IN  /\ IsSubsequence(expected, calls)
            /\ (\A k \in DOMAIN cmds : WellFormed(cmds[k]))
                  => calls = expected

\* The line of the stream in that the next command character is.
LineAt(in) ==
    LET p    == SkipSpace(in.buf, in.pos)
        rest == SubSeq(in.buf, p, Len(in.buf))
        ls   == SplitOn(rest, "\n", <<>>)
    IN  IF ls = <<>> THEN <<>> ELSE ls[1]

\* What C18 says of one iteration of the loop that starts with the stream in
\* and takes the book from (h, rt, c) to (h2, rt2, c2) and the calls made
\* from made to made2.
MalformedSkipped(in, h, rt, c, made, h2, rt2, c2, made2) ==
    (in.ok /\ LineAt(in) # <<>> /\ ~WellFormed(CommandOf(LineAt(in))))
    => (made2 = made /\ h2 = h /\ rt2 = rt /\ c2 = c)

\* C18 (as claimed; a command character whose argument cannot be read is
\* still dispatched): an iteration of the loop that meets a malformed line
\* (an unknown command character, or '+', '-' or '=' with a numeric argument
\* missing or not a number) calls none of add, removeByPosition and buy, and
\* the book is as before.
C18_MalformedSkipped ==
    [][pc = "loop" =>
          MalformedSkipped(cin, heap, root, globalInsertionCounter, calls,
                           heap', root', globalInsertionCounter', calls')]_vars

\* The addresses of the nodes reachable from n.
Reachable(h, n) == LET nodes == InOrder(h, n) IN {nodes[k] : k \in DOMAIN nodes}

\* The addresses allocated and not released.
Live(h) == {n \in 1 .. Len(h) : ~h[n].freed}

\* What C19 says of one call that took the book from (h, rt) to (h2, rt2):
\* the nodes it released are those it unlinked, they were live, and what was
\* released before is not written.
ReleasedWhenUnlinked(h, rt, h2, rt2) ==
    /\ Live(h) \ Live(h2) = Reachable(h, rt) \ Reachable(h2, rt2)
    /\ Live(h) \ Live(h2) \subseteq Live(h)
    /\ \A n \in 1 .. Len(h) : h[n].freed => h2[n] = h[n]

\* What C19 says of one call buy(shares) on the book (h, rt): at each
\* iteration the tree holds live nodes only, the pointer top is to a node of
\* it, and a node removed in one iteration is the top of no later one.
TopNeverStale(h, rt, shares) ==
    LET fills == buy(h, rt, shares).log IN
    \A a \in DOMAIN fills :
        /\ Reachable(fills[a].heap, fills[a].root) = Live(fills[a].heap)
        /\ fills[a].node \in Reachable(fills[a].heap, fills[a].root)
        /\ fills[a].removed =>
              /\ buy(h, rt, shares).h[fills[a].node].freed
              /\ \A b \in DOMAIN fills : b > a =>
                    /\ fills[b].node # fills[a].node
                    /\ fills[b].heap[fills[a].node].freed

\* C19: a node removed by removeByPosition or by exhaustion in buy is
\* released in the step that unlinks it (the live nodes are at every moment
\* the nodes of the tree, so that a released node cannot be reached, read,
\* written or released again), and the rank-0 pointer of buy is a node of the
\* tree whenever it is used, never one removed in an earlier iteration.
C19_ReleasedOnceNeverUsed ==
    /\ [](Reachable(heap, root) = Live(heap))
    /\ [][ReleasedWhenUnlinked(heap, root, heap', root')]_vars
    /\ [][lastOp'.kind = "buy" =>
             TopNeverStale(heap, root, lastOp'.shares)]_vars

\* A buy of 10 that exhausted and released two nodes, one iteration after
\* the other, and left the third.
C19_Witness ==
    /\ lastOp.kind = "buy"
    /\ lastOp.shares = 10
    /\ Cardinality({n \in 1 .. Len(heap) : heap[n].freed}) = 2
    /\ nRemoved = 2
    /\ Size = 1
    /\ ~heap[root].freed

\* The same book given orders and requests at the ends of int and long long,
\* as long as the value of the resting orders is one a long long holds.
NextWide ==
    \/ \E in \in WideAddInputs, prio \in Priorities :
          /\ TotalValue(RankList(heap, root)) + in[1] * in[2] <= LongLongMax
          /\ Add(in[1], in[2], prio)
    \/ \E shares \in WideBuyShares : Buy(shares)

SpecWide == Init /\ [][NextWide]_vars

\* What C20 says of one call buy(shares) that returned cost on the book
\* (h, rt) of orders with price >= 0 and quantity > 0 whose exact total cost a
\* long long holds: no partial sum leaves long long, and cost is the exact
\* sum of price * units over the reference walk.
CostExact(h, rt, shares, cost) ==
    LET orders == SortedOrders(Resting(h, rt))
        exact  == GreedyCost(orders, shares)
    IN  (/\ \A k \in DOMAIN orders :
               orders[k].price >= 0 /\ orders[k].quantity > 0
         /\ exact <= LongLongMax)
        => /\ cost = exact
           /\ \A k \in DOMAIN orders :
                 GreedyCost(SubSeq(orders, 1, k), shares) <= LongLongMax

\* C20: buy adds up cost in a long long and computes each canFill * price in
\* long long: for every book and request whose exact total cost a long long
\* holds, with prices up to INT_MAX and fill quantities beyond INT_MAX, the
\* cost returned is that exact total; nothing wraps at the width of int.
C20_CostExactInLongLong ==
    [][lastOp'.kind = "buy" =>
          CostExact(heap, root, lastOp'.shares, lastOp'.cost)]_vars

\* Two orders at the price INT_MAX with INT_MAX + 2 units each, bought whole
\* by one request for LLONG_MAX units: the cost is LLONG_MAX - 1.
C20_Witness ==
    /\ lastOp.kind = "buy"
    /\ lastOp.shares = LongLongMax
    /\ lastOp.cost = 2 * IntMax * (IntMax + 2)
    /\ lastOp.cost = LongLongMax - 1
    /\ lastOp.cost > 2 ^ IntBits
    /\ nAdded = 2
    /\ root = Null

\* What C22 says of one call buy(shares), shares > 0, that took a book of
\* orders with quantity > 0 from (h, rt) to (h2, rt2).
FillShape(h, rt, shares, h2, rt2) ==
    LET before == RankList(h, rt)
        after  == RankList(h2, rt2)
        total  == TotalQuantity(before)
        taken  == IF shares < total THEN shares ELSE total
        gone   == Len(before) - Len(after)
        res    == buy(h, rt, shares)
    IN
    (shares > 0 /\ \A k \in DOMAIN before : before[k].quantity > 0) =>
        /\ TotalQuantity(after) = total - taken
        /\ gone >= 0
        /\ \A k \in DOMAIN after :
              /\ after[k].price = before[k + gone].price
              /\ after[k].sequence = before[k + gone].sequence
              /\ after[k].quantity <= before[k + gone].quantity
              /\ after[k].quantity < before[k + gone].quantity => k = 1
              /\ after[k].quantity > 0
        /\ res.shares = shares - taken
        /\ res.shares = 0 \/ res.r = Null
        /\ \A k \in DOMAIN res.log :
              /\ res.log[k].root # Null
              /\ res.log[k].canFill > 0
              /\ res.log[k].removed \/ k = Len(res.log)
        /\ Len(res.log) >= gone

\* C22: buy(Q) with Q > 0 on a book whose orders all have quantity > 0 takes
\* exactly min(Q, total resting quantity) units off the total; the orders it
\* removes are a prefix of the rank order before the call; at most one
\* surviving order has a smaller quantity, and it is at rank 0 afterwards; and
\* the loop stops exactly when the remaining request is 0 or the book is
\* empty.
C22_FillShape ==
    [][lastOp'.kind = "buy" =>
          FillShape(heap, root, lastOp'.shares, heap', root')]_vars

\* (7, 4), (10, 3) and (10, 5) in some order, then buy(10): the first two in
\* rank are removed and the third rests at rank 0 with 2 units.
C22_Witness ==
    /\ lastOp = [kind |-> "buy", shares |-> 10, cost |-> 88]
    /\ nAdded = 3
    /\ nRemoved = 2
    /\ Size = 1
    /\ Book[1].price = 10
    /\ Book[1].quantity = 2

\* The keys of the nodes of the tree rooted at n all precede those of the tree
\* rooted at m.
AllBefore(h, n, m) ==
    \A a \in Reachable(h, n), b \in Reachable(h, m) :
        lessThan(h[a].price, h[a].insertion_id, h[b].price, h[b].insertion_id)

\* In-order traversal of the tree rooted at n is strictly increasing by key.
KeyOrdered(h, n) ==
    LET nodes == InOrder(h, n) IN
    \A k \in 1 .. Len(nodes) - 1 :
        Precedes(Payload(h, nodes[k]), Payload(h, nodes[k + 1]))

\* What C23 says of treapMerge(L, R) on the heap h.
MergeCorrect(h, L, R) ==
    LET merged == treapMerge(h, L, R) IN
    (/\ AllBefore(h, L, R)
     /\ HeapOrdered(h, L) /\ HeapOrdered(h, R)
     /\ SizesConsistent(h, L) /\ SizesConsistent(h, R)) =>
        /\ InOrder(merged.h, merged.r) = InOrder(h, L) \o InOrder(h, R)
        /\ merged.r = IF L = Null THEN R
                      ELSE IF R = Null THEN L
                      ELSE IF h[L].priority > h[R].priority THEN L ELSE R
        /\ HeapOrdered(merged.h, merged.r)
        /\ SizesConsistent(merged.h, merged.r)
        /\ KeyOrdered(merged.h, merged.r)
        /\ \A n \in Reachable(h, L) \cup Reachable(h, R) :
              Payload(merged.h, n) = Payload(h, n)

\* C23: treapMerge(L, R), with every key of L smaller than every key of R and
\* both valid treaps, returns a tree of exactly the nodes of L and R whose
\* in-order traversal is that of L followed by that of R, whose root is the
\* root of higher priority (R's when the priorities are equal, the non-empty
\* argument when one is empty), and in which the heap property and the
\* subtree sizes hold.  Checked for the two subtrees of every node of every
\* tree, and for the two trees of every split.
C23_MergeCorrect ==
    /\ \A n \in Reachable(heap, root) :
          MergeCorrect(heap, heap[n].left, heap[n].right)
    /\ \A key \in Keys :
          LET splitted == treapSplit(heap, root, key[1], key[2])
          IN  MergeCorrect(splitted.h, splitted.first, splitted.second)

\* A root whose two children have the same priority: their merge has the right
\* child on top, with the left child below it.
C23_Witness ==
    /\ Size = 3
    /\ heap[root].left # Null
    /\ heap[root].right # Null
    /\ heap[heap[root].left].priority = heap[heap[root].right].priority
    /\ LET merged == treapMerge(heap, heap[root].left, heap[root].right)
       IN  /\ merged.r = heap[root].right
           /\ merged.h[merged.r].left = heap[root].left

\* The key (price, ins) is at or after the key of node n.
AtMostKey(h, n, price, ins) ==
    \/ h[n].price < price
    \/ h[n].price = price /\ h[n].insertion_id <= ins

\* What C24 says of treapSplit(rt, price, ins) on the heap h.
SplitCorrect(h, rt, price, ins) ==
    LET splitted == treapSplit(h, rt, price, ins)
        h2       == splitted.h
    IN
    /\ Reachable(h2, splitted.first) =
          {n \in Reachable(h, rt) : AtMostKey(h, n, price, ins)}
    /\ Reachable(h2, splitted.second) =
          {n \in Reachable(h, rt) : ~AtMostKey(h, n, price, ins)}
    /\ InOrder(h2, splitted.first) \o InOrder(h2, splitted.second)
          = InOrder(h, rt)
    /\ \A n \in Reachable(h, rt) : Payload(h2, n) = Payload(h, n)
    /\ KeyOrdered(h2, splitted.first) /\ KeyOrdered(h2, splitted.second)
    /\ HeapOrdered(h2, splitted.first) /\ HeapOrdered(h2, splitted.second)
    /\ SizesConsistent(h2, splitted.first)
    /\ SizesConsistent(h2, splitted.second)

\* C24: treapSplit(price, sequence) on a valid treap returns (left, right)
\* where left holds exactly the nodes with key <= (price, sequence), a node
\* equal to the key included, and right exactly those with a greater key; no
\* node is lost or duplicated; and both trees are key-ordered, heap-ordered
\* and size-consistent.
C24_SplitCorrect ==
    \A key \in Keys : SplitCorrect(heap, root, key[1], key[2])

\* Three nodes, 7 and 10 and 10, split at the key of the first 10 that is in
\* the tree: two nodes to the left, that one last, and one to the right.
C24_Witness ==
    /\ Size = 3
    /\ Book[1].price = 7
    /\ Book[2].price = 10
    /\ Book[3].price = 10
    /\ <<10, Book[2].sequence>> \in Keys
    /\ LET splitted == treapSplit(heap, root, 10, Book[2].sequence)
       IN  /\ getSize(splitted.h, splitted.first) = 2
           /\ getByRank(splitted.h, splitted.first, 1)
                 = getByRank(heap, root, 1)
           /\ getSize(splitted.h, splitted.second) = 1

\* What C25 says of treapRemoveKey(rt, price, ins) on the heap h.
RemoveKeyCorrect(h, rt, price, ins) ==
    LET removed == treapRemoveKey(h, rt, price, ins)
        h2      == removed.h
        before  == InOrder(h, rt)
        found   == {k \in DOMAIN before :
                       /\ h[before[k]].price = price
                       /\ h[before[k]].insertion_id = ins}
    IN
    /\ Cardinality(found) <= 1
    /\ \A k \in found :
          /\ InOrder(h2, removed.r) = RemoveAt(before, k)
          /\ getSize(h2, removed.r) = getSize(h, rt) - 1
          /\ h2[before[k]] = Deleted
          /\ \A n \in Reachable(h2, removed.r) : Payload(h2, n) = Payload(h, n)
          /\ KeyOrdered(h2, removed.r)
          /\ HeapOrdered(h2, removed.r)
          /\ SizesConsistent(h2, removed.r)
    /\ found = {} => (h2 = h /\ removed.r = rt)

\* C25: treapRemoveKey(price, sequence) removes the one node whose key is
\* exactly (price, sequence) when there is one, leaving every other node, its
\* payload and the tree invariants as they are and the size one less; when no
\* node has the key the tree returned has the same nodes, shape and subtree
\* sizes as before.
C25_RemoveKeyCorrect ==
    \A key \in Keys : RemoveKeyCorrect(heap, root, key[1], key[2])

\* Three nodes whose root has two children: the root's key removes the root,
\* and a key of the root's price with the sequence of another node, which is
\* the key of no node, removes nothing.
C25_Witness ==
    /\ Size = 3
    /\ heap[root].left # Null
    /\ heap[root].right # Null
    /\ <<heap[root].price, heap[root].insertion_id>> \in Keys
    /\ treapRemoveKey(heap, root, heap[root].price,
                      heap[root].insertion_id).h[root] = Deleted
    /\ \E key \in Keys :
          /\ key[1] = heap[root].price
          /\ key[2] # heap[root].insertion_id
          /\ treapRemoveKey(heap, root, key[1], key[2]).h = heap

\* What C26 says of one iteration of the loop of buy that took the book from
\* (h, rt) to (h2, rt2) and left shares2 to fill: the request is down to 0,
\* or the order that was at rank 0 is removed.
IterationProgress(h, rt, h2, rt2, shares2) ==
    \/ shares2 = 0
    \/ /\ getSize(h2, rt2) = getSize(h, rt) - 1
       /\ h2[getByRank(h, rt, 0)].freed

\* What C26 says of the end of a call whose frame is f, on the book (h, rt):
\* when nothing overflowed, the cost and the book are those of buy applied to
\* the book the call started on.
ReturnsAsBuy(f, h, rt) ==
    ~f.overflowed =>
        LET res == buy(f.heap0, f.root0, f.shares0)
        IN  f.cost = res.cost /\ h = res.h /\ rt = res.r

\* C26: buy always ends.  On every reachable book, those with orders added
\* with size 0 or below 0 included, and for every request, each iteration of
\* the loop brings the remaining request to 0 or removes the order at rank 0,
\* so that at most size + 1 iterations are made, and a call that was started
\* returns.
C26_BuyTerminates ==
    /\ [][lastOp'.kind = "iteration" =>
             IterationProgress(heap, root, heap', root', buyFrame'.shares)]_vars
    /\ [](buyFrame.active =>
             buyFrame.iterations <= getSize(buyFrame.heap0, buyFrame.root0) + 1)
    /\ [][lastOp'.kind = "buy" => ReturnsAsBuy(buyFrame, heap', root')]_vars
    /\ (buyFrame.active ~> ~buyFrame.active)

\* buy(LLONG_MAX) on a book of three orders, one of them of a size below 0,
\* is about to return after three iterations in which the request overflowed.
C26_Witness ==
    /\ lastOp.kind = "iteration"
    /\ buyFrame.active
    /\ buyFrame.shares0 = LongLongMax
    /\ buyFrame.shares <= 0
    /\ buyFrame.iterations = 3
    /\ buyFrame.overflowed
    /\ getSize(buyFrame.heap0, buyFrame.root0) = 3
    /\ \E n \in Reachable(buyFrame.heap0, buyFrame.root0) :
          buyFrame.heap0[n].sizeShares < 0
    /\ root = Null


\* ---- a reference book: the resting orders as a plain list kept sorted by
\* (price, sequence), with the counter of the sequences handed out.

\* Order o put into the sorted list s: behind the orders that precede it.
ListInsert(s, o) ==
    LET ahead == Cardinality({k \in DOMAIN s : Precedes(s[k], o)})
    IN  SubSeq(s, 1, ahead) \o <<o>> \o SubSeq(s, ahead + 1, Len(s))

\* The list walked from its head for `shares` units: the list left and the
\* cost, added to `cost`.
RECURSIVE ListBuy(_, _, _)
ListBuy(s, shares, cost) ==
    IF ~(shares > 0 /\ s # <<>>) THEN [orders |-> s, cost |-> cost]
    ELSE LET top     == Head(s)
             canFill == IF shares < top.quantity THEN shares ELSE top.quantity
             rest    == IF top.quantity - canFill = 0 THEN Tail(s)
                        ELSE <<[top EXCEPT !.quantity = @ - canFill]>>
                                 \o Tail(s)
         IN  ListBuy(rest, shares - canFill, cost + canFill * top.price)

\* The reference book after operation op on the reference book that holds
\* the orders s and has handed out `counter` sequences, and what the
\* operation returned.
ReferenceStep(op, s, counter) ==
    CASE op.kind = "add" ->
            [orders  |-> ListInsert(s, [price |-> op.price,
                                        quantity |-> op.size,
                                        sequence |-> counter]),
             counter |-> counter + 1, cost |-> 0]
      [] op.kind = "cancel" ->
            [orders  |-> IF 0 <= op.pos /\ op.pos < Len(s)
                         THEN RemoveAt(s, op.pos + 1) ELSE s,
             counter |-> counter, cost |-> 0]
      [] op.kind = "buy" ->
            [orders  |-> ListBuy(s, op.shares, 0).orders,
             counter |-> counter,
             cost    |-> ListBuy(s, op.shares, 0).cost]

\* What C27 says of one operation op that took the book from (h, rt) with
\* counter c to (h2, rt2) with counter c2: the treap did what the reference
\* book does from the same list.
RefinesReference(op, h, rt, c, h2, rt2, c2) ==
    LET ref == ReferenceStep(op, RankList(h, rt), c) IN
    /\ RankList(h2, rt2) = ref.orders
    /\ c2 = ref.counter
    /\ op.kind = "buy" => op.cost = ref.cost

\* C27: the priorities decide the shape of the tree and nothing else.  For
\* every choice of priorities and every sequence of add, removeByPosition and
\* buy calls, the list of (price, quantity, sequence) by rank after each
\* operation, and the cost each buy returns, are those of a reference book
\* kept as a plain list sorted by (price, sequence) and given the same
\* operation.
C27_RefinesSortedList ==
    /\ Book = <<>> /\ globalInsertionCounter = 0
    /\ [][RefinesReference(lastOp', heap, root, globalInsertionCounter,
                           heap', root', globalInsertionCounter')]_vars

\* A buy of 6 on a book of three orders whose root, by its priority, is the
\* order added last and has both children: an order was exhausted, and the
\* first of the two left has been reduced.
C27_Witness ==
    /\ lastOp.kind = "buy"
    /\ lastOp.shares = 6
    /\ nAdded = 3
    /\ Size = 2
    /\ heap[root].insertion_id = 2
    /\ heap[root].left # Null
    /\ Book[1].sequence = heap[heap[root].left].insertion_id
    /\ lastOp.cost > 0


\* The rank (from 1) in the traversal `nodes` of the last order that a buy
\* with the fills `fills` took units from; 0 when it took from none.
LastFilled(nodes, fills) ==
    LET took == {k \in DOMAIN nodes :
                    \E i \in DOMAIN fills :
                        fills[i].node = nodes[k] /\ fills[i].canFill # 0}
    IN  IF took = {} THEN 0 ELSE CHOOSE k \in took : \A j \in took : j <= k

\* What C28 says of one call of buy or removeByPosition, op, that took the
\* book from (h, rt) with counter c to (h2, rt2) with counter c2.
FrameOfBuyAndCancel(op, h, rt, c, h2, rt2, c2) ==
    LET nodes == InOrder(h, rt)
        fills == buy(h, rt, op.shares).log
        last  == LastFilled(nodes, fills)
    IN
    /\ c2 = c
    /\ Reachable(h2, rt2) \subseteq Reachable(h, rt)
    /\ \A n \in Reachable(h2, rt2) :
          /\ h2[n].price = h[n].price
          /\ h2[n].insertion_id = h[n].insertion_id
    /\ \A o2 \in Resting(h2, rt2) :
          \E o \in Resting(h, rt) :
              o.sequence = o2.sequence /\ o.price = o2.price
    /\ op.kind = "buy" =>
          /\ Len(h2) = Len(h)
          /\ getSize(h2, rt2) <= getSize(h, rt)
          /\ \A k \in last + 1 .. Len(nodes) :
                IF nodes[k] \in Reachable(h2, rt2)
                THEN h2[nodes[k]].sizeShares = h[nodes[k]].sizeShares
                ELSE \E i \in DOMAIN fills :
                        /\ fills[i].node = nodes[k]
                        /\ fills[i].canFill = 0
                        /\ h[nodes[k]].sizeShares = 0

\* C28: buy and removeByPosition leave the sequence counter as it is and
\* leave the price and the sequence of every order that still rests as they
\* were; buy allocates no node and puts none into the tree, and every order
\* ranked after the last one it took units from has the quantity it had
\* (when it rests no more, it is one of quantity 0 that the walk removed).
C28_FrameOfBuyAndCancel ==
    [][lastOp'.kind \in {"buy", "cancel"} =>
          FrameOfBuyAndCancel(lastOp', heap, root, globalInsertionCounter,
                              heap', root', globalInsertionCounter')]_vars

\* A buy of 6 on a book of three orders: the first is gone, the second is
\* left in part, and the third, which the walk did not reach, has all of its
\* quantity.
C28_Witness ==
    /\ lastOp.kind = "buy"
    /\ lastOp.shares = 6
    /\ nAdded = 3
    /\ nRemoved = 1
    /\ Size = 2
    /\ globalInsertionCounter = 3
    /\ Book[1].quantity \in {1, 2, 3}
    /\ Book[2].quantity \in {4, 5}
    /\ Book[2].price = 10


\* What C29 says of the book (h, rt), the request a and the requests of B:
\* buy(a) and then buy(b) against buy(a + b), for every b of B.
Additive(h, rt, a, B) ==
    LET first == buy(h, rt, a) IN
    \A b \in B :
        LET second == buy(first.h, first.r, b)
            whole  == buy(h, rt, a + b)
        IN  /\ first.cost + second.cost = whole.cost
            /\ RankList(second.h, second.r) = RankList(whole.h, whole.r)

\* C29: buy is additive.  On every book whose orders all have quantity > 0
\* and for all a > 0 and b > 0, the costs returned by buy(a) and then buy(b)
\* add up to the cost returned by buy(a + b) on the same book, and the two
\* ways leave the same orders, with the same quantities, at the same ranks.
C29_BuyAdditive ==
    (\A n \in Reachable(heap, root) : heap[n].sizeShares > 0) =>
        \A a \in {q \in FillShares : q > 0} :
            Additive(heap, root, a, {q \in FillShares : q > 0})

\* A book of three orders left by a buy of 1: a further 6 and then 6 more
\* take all that rests, the first 6 ending inside an order, as 12 does at
\* once.
C29_Witness ==
    /\ lastOp.kind = "buy"
    /\ lastOp.shares = 1
    /\ Size = 3
    /\ TotalQuantity(Book) = 12
    /\ buy(heap, root, 6).r # Null
    /\ Len(buy(heap, root, 6).log) = 2
    /\ buy(heap, root, 12).r = Null
    /\ buy(heap, root, 6).cost + buy(buy(heap, root, 6).h,
                                     buy(heap, root, 6).r, 6).cost
          = TotalValue(Book)


\* What C30 says of the return of a call whose frame is f and which left the
\* book (h, rt): the call made no iteration, returned 0, and the heap (every
\* field of every node) and the root are those it was called on.
ReturnsUntouched(f, cost, h, rt) ==
    /\ f.iterations = 0
    /\ cost = 0
    /\ h = f.heap0
    /\ rt = f.root0

\* What C30 says of buy(shares) on the book (h, rt).
NoFill(h, rt, shares) ==
    LET res == buy(h, rt, shares) IN
    /\ res.cost = 0
    /\ res.log = <<>>
    /\ res.h = h
    /\ res.r = rt

\* C30: buy(Q) with Q <= 0 returns 0 and leaves the book exactly as it was,
\* whatever rests in it (orders of quantity 0 or below 0 included): the loop
\* is not entered, so no order is looked up, reduced or removed.
C30_NonPositiveBuyIsNoOp ==
    /\ [][(lastOp'.kind = "buy" /\ lastOp'.shares <= 0) =>
             ReturnsUntouched(buyFrame, lastOp'.cost, heap', root')]_vars
    /\ [][lastOp'.kind = "iteration" => buyFrame.shares0 > 0]_vars
    /\ [](\A q \in {s \in LoopBuyShares : s <= 0} \cup {-LongLongMax - 1} :
             NoFill(heap, root, q))

\* buy(-1) has returned 0 on a book of three orders, of quantities 4, 0 and
\* -2.
C30_Witness ==
    /\ lastOp = [kind |-> "buy", shares |-> -1, cost |-> 0]
    /\ Size = 3
    /\ {Book[k].quantity : k \in 1 .. 3} = {4, 0, -2}
    /\ ~buyFrame.active

=============================================================================
